---- MODULE Spec2Model ----
(***************************************************************************)
(* A model of WebGPUEngine (packages/core/src/WebGPUEngine.ts): the frame  *)
(* life cycle, the render/compute pass state, bundle recording, the two    *)
(* pipeline caches, the attachment textures and the staging buffers.       *)
(*                                                                         *)
(* The engine's fields are the variables named as in the source.  The GPU  *)
(* device the engine drives is modelled by the tables encoders, passes,    *)
(* bundles, buffers, textures, queue, images and the two pipeline object   *)
(* tables: every device call the engine makes updates them and is logged   *)
(* in the per-call trace kept in lastCall.  A JavaScript TypeError (a      *)
(* member access on undefined or null) aborts the method at that           *)
(* statement; the fields assigned before it keep their new values.         *)
(***************************************************************************)
EXTENDS Integers, Sequences, FiniteSets, TLC

\* ---------------------------------------------------------------- bounds

\* The number of public calls made on one engine in one behaviour.
MaxCalls == 3

\* The same for the behaviours of FrameSpec and of BundleSpec.
MaxFrameCalls == 5
MaxBundleCalls == 4

\* The same for the behaviours of ConfigSpec.
MaxConfigCalls == 4

\* The same for the behaviours of BufferSpec, and the longest data handed
\* to a buffer there, in bytes.
MaxBufferCalls == 2
MaxByteLength == 5

\* The number of calls in the behaviours of PassSpec.
MaxPassCalls == 5

\* ------------------------------------------------------ program constants

defaultSampleCount == 4
clearDepthValue == 1
clearStencilValue == 0

\* ---------------------------------------------------------------- inputs

Names == {"a", "b"}

\* A pipeline description: which stages it carries, and a tag that tells
\* two descriptions with the same stages apart.
Descs ==
  { [vertexStage |-> TRUE,  fragmentStage |-> TRUE,  tag |-> 1],
    [vertexStage |-> TRUE,  fragmentStage |-> TRUE,  tag |-> 2],
    [vertexStage |-> TRUE,  fragmentStage |-> FALSE, tag |-> 1],
    [vertexStage |-> FALSE, fragmentStage |-> TRUE,  tag |-> 1] }

NoDesc == [vertexStage |-> FALSE, fragmentStage |-> FALSE, tag |-> 0]

ComputeDescs == {1, 2}

\* Engine options given to the constructor.
OptionSet ==
  { [antialiasing |-> aa, supportCompute |-> sc, swapChainFormat |-> "bgra8unorm"]
      : aa \in BOOLEAN, sc \in BOOLEAN }

\* Byte lengths of the data handed to setSubData / create*Buffer; the data
\* is a view over the whole of its ArrayBuffer.
ByteLengths == {5}

\* Arguments of clear(color, backBuffer, depth, stencil).
ClearArgs ==
  { [color |-> <<1, 1, 1, 1>>, backBuffer |-> TRUE,  depth |-> TRUE,  stencil |-> FALSE],
    [color |-> <<1, 1, 1, 1>>, backBuffer |-> FALSE, depth |-> FALSE, stencil |-> FALSE] }

\* Arguments of bindVertexInputs: 0 in vertexBuffers is a hole.
VertexInputs ==
  { [indexBuffer |-> TRUE,  vertexBuffers |-> <<1>>],
    [indexBuffer |-> FALSE, vertexBuffers |-> <<0, 1>>],
    [indexBuffer |-> FALSE, vertexBuffers |-> <<0>>] }

BindGroupCounts == {0, 2}

CanvasSizes == { <<8, 6>> }
SizeArgs == { <<4, 3>> }

\* The swap chain formats an engine is configured with in ConfigSpec, the
\* options built from them, and the sizes asked of setSize there: the size
\* of the canvas and another one.
SwapChainFormats == {"bgra8unorm", "rgba8unorm"}

ConfigOptionSet ==
  { [antialiasing |-> aa, supportCompute |-> sc, swapChainFormat |-> f]
      : aa \in BOOLEAN, sc \in BOOLEAN, f \in SwapChainFormats }

ResizeArgs == { <<4, 3>>, <<8, 6>> }

\* The byte lengths of the data handed to the buffers of BufferSpec.
BufferLengths == 0..MaxByteLength

\* ------------------------------------------------------------- variables

VARIABLES
  canvas, options, device, swapChain,
  pipelines, computePipelines, mainPassSampleCount,
  mainTexture, depthTexture, mainColorAttachments, mainTextureExtends,
  mainDepthAttachment,
  uploadEncoder, renderEncoder, computeEncoder, commandBuffers,
  currentRenderPass, currentComputePass, bundleEncoder, tempBuffers,
  encoders, passes, bundles, buffers, textures, queue, images,
  renderPipelineObjs, computePipelineObjs,
  frameOpen, fetchLog, lastCall, calls

engineVars ==
  << canvas, options, device, swapChain,
     pipelines, computePipelines, mainPassSampleCount,
     mainTexture, depthTexture, mainColorAttachments, mainTextureExtends,
     mainDepthAttachment,
     uploadEncoder, renderEncoder, computeEncoder, commandBuffers,
     currentRenderPass, currentComputePass, bundleEncoder, tempBuffers >>

gpuVars ==
  << encoders, passes, bundles, buffers, textures, queue, images,
     renderPipelineObjs, computePipelineObjs >>

vars == << engineVars, gpuVars, frameOpen, fetchLog, lastCall, calls >>

\* ------------------------------------------------------- the state record

\* What a fetch of a render pipeline returned: result 0 is "no pipeline";
\* device tells whether the engine had its device when the fetch was made,
\* frame and pass the render stream and the render pass it then held.
NoFetch ==
  [name |-> "", desc |-> NoDesc, result |-> 0, compiled |-> FALSE, threw |-> FALSE,
   device |-> FALSE, frame |-> 0, pass |-> 0]

\* The engine and the device as one record, which the methods below map
\* to the record after the call.  err is the exception in flight, trace
\* the device calls made so far by the running call, fetch the outcome of
\* getRenderPipeline, ret the value returned, req the arguments the caller
\* passed (the width and height of setSize, the byte length of the data,
\* the arguments of clear).
St ==
  [ canvas |-> canvas, options |-> options, device |-> device,
    swapChain |-> swapChain, pipelines |-> pipelines,
    computePipelines |-> computePipelines,
    mainPassSampleCount |-> mainPassSampleCount,
    mainTexture |-> mainTexture, depthTexture |-> depthTexture,
    mainColorAttachments |-> mainColorAttachments,
    mainTextureExtends |-> mainTextureExtends,
    mainDepthAttachment |-> mainDepthAttachment,
    uploadEncoder |-> uploadEncoder, renderEncoder |-> renderEncoder,
    computeEncoder |-> computeEncoder, commandBuffers |-> commandBuffers,
    currentRenderPass |-> currentRenderPass,
    currentComputePass |-> currentComputePass,
    bundleEncoder |-> bundleEncoder, tempBuffers |-> tempBuffers,
    encoders |-> encoders, passes |-> passes, bundles |-> bundles,
    buffers |-> buffers, textures |-> textures, queue |-> queue,
    images |-> images, renderPipelineObjs |-> renderPipelineObjs,
    computePipelineObjs |-> computePipelineObjs,
    err |-> "none", trace |-> <<>>, fetch |-> NoFetch, ret |-> 0, req |-> <<>> ]

Throw(s) == [s EXCEPT !.err = "TypeError"]

\* One device call, as logged: the call, the kind of object it is made on
\* or makes, the object, a number and a list of numbers it is given.
Event(ev, kind, obj, arg, list) ==
  [ev |-> ev, kind |-> kind, obj |-> obj, arg |-> arg, list |-> list]

Log(s, e) == [s EXCEPT !.trace = Append(@, e)]

\* ------------------------------------------------------------ the device

NoView == [kind |-> "none", id |-> 0]

\* GPUDevice.createCommandEncoder
createCommandEncoder(s, label) ==
  LET id == Len(s.encoders) + 1 IN
  Log([s EXCEPT !.encoders = Append(@, [label |-> label, cmds |-> <<>>,
                                        finished |-> FALSE, openAtFinish |-> 0]),
                !.ret = id],
      Event("createCommandEncoder", label, id, 0, <<>>))

OpenPassesOf(s, e) ==
  Cardinality({p \in 1..Len(s.passes) : s.passes[p].enc = e /\ s.passes[p].ends = 0})

\* GPUCommandEncoder.finish: the command buffer of encoder e.  It is valid
\* when e was not finished before and none of its passes is still open.
finish(s, e) ==
  LET open == OpenPassesOf(s, e)
      cb == [encoder |-> e, label |-> s.encoders[e].label,
             cmds |-> s.encoders[e].cmds,
             valid |-> ~s.encoders[e].finished /\ open = 0]
  IN Log([s EXCEPT !.encoders[e].finished = TRUE,
                   !.encoders[e].openAtFinish =
                       IF s.encoders[e].finished THEN @ ELSE open,
                   !.ret = cb],
         Event("finish", s.encoders[e].label, e, 0, <<>>))

\* A command recorded on encoder e; a finished encoder records nothing.
encode(s, e, cmd) ==
  IF s.encoders[e].finished THEN s
  ELSE [s EXCEPT !.encoders[e].cmds = Append(@, cmd)]

\* GPUQueue.submit
submit(s, cbs) ==
  Log([s EXCEPT !.queue = Append(@, cbs)],
      Event("submit", "queue", 0, Len(cbs), [i \in 1..Len(cbs) |-> cbs[i].encoder]))

\* GPUCommandEncoder.beginRenderPass / beginComputePass on encoder e.
\* live: the encoder was still recording; siblings: the passes of the kind
\* that were begun and not ended when this one was begun.
beginPass(s, kind, e, color, depth) ==
  LET id == Len(s.passes) + 1
      sib == Cardinality({p \in 1..Len(s.passes) :
                            s.passes[p].kind = kind /\ s.passes[p].ends = 0})
  IN Log([encode(s, e, IF kind = "render" THEN "beginRenderPass"
                                            ELSE "beginComputePass")
            EXCEPT !.passes = Append(@, [kind |-> kind, enc |-> e, cmds |-> <<>>,
                                         ends |-> 0, siblings |-> sib,
                                         live |-> ~s.encoders[e].finished,
                                         color |-> color, depth |-> depth]),
                   !.ret = id],
         Event(IF kind = "render" THEN "beginRenderPass" ELSE "beginComputePass",
               kind, id, e, <<>>))

\* GPURenderPassEncoder.endPass / GPUComputePassEncoder.endPass
endPass(s, p) ==
  Log([s EXCEPT !.passes[p].ends = @ + 1],
      Event("endPass", s.passes[p].kind, p, 0, <<>>))

\* GPUDevice.createRenderBundleEncoder
createRenderBundleEncoder(s, colorFormat, sampleCount) ==
  LET id == Len(s.bundles) + 1 IN
  Log([s EXCEPT !.bundles = Append(@, [cmds |-> <<>>, finished |-> FALSE,
                                       colorFormat |-> colorFormat,
                                       sampleCount |-> sampleCount]),
                !.ret = id],
      Event("createRenderBundleEncoder", "bundle", id, sampleCount, <<>>))

\* GPURenderBundleEncoder.finish
finishBundle(s, b) ==
  Log([s EXCEPT !.bundles[b].finished = TRUE, !.ret = b],
      Event("finish", "bundle", b, 0, <<>>))

\* GPUSwapChain.getCurrentTexture().createView(): a fresh image each call.
getCurrentTexture(s) ==
  Log([s EXCEPT !.images = @ + 1, !.ret = [kind |-> "swap", id |-> s.images + 1]],
      Event("getCurrentTexture", "swap", s.images + 1, 0, <<>>))

\* GPUDevice.createTexture
createTexture(s, kind, size, sampleCount) ==
  LET id == Len(s.textures) + 1 IN
  Log([s EXCEPT !.textures = Append(@, [kind |-> kind, size |-> size,
                                        sampleCount |-> sampleCount,
                                        destroys |-> 0]),
                !.ret = id],
      Event("createTexture", kind, id, sampleCount, size))

\* GPUTexture.destroy
destroyTexture(s, t) ==
  Log([s EXCEPT !.textures[t].destroys = @ + 1],
      Event("destroy", "texture", t, 0, <<>>))

\* GPUDevice.createBuffer / createBufferMapped.  born and died count the
\* batches submitted before the buffer was created and destroyed.
newBuffer(s, usage, size) ==
  LET id == Len(s.buffers) + 1 IN
  Log([s EXCEPT !.buffers = Append(@, [usage |-> usage, size |-> size,
                                       copyEnc |-> 0, copyLive |-> FALSE,
                                       born |-> Len(s.queue),
                                       destroys |-> 0, died |-> 0]),
                !.ret = id],
      Event("createBuffer", usage, id, size, <<>>))

\* GPUBuffer.destroy
destroyBuffer(s, b) ==
  Log([s EXCEPT !.buffers[b].destroys = @ + 1,
                !.buffers[b].died = IF s.buffers[b].destroys = 0
                                    THEN Len(s.queue) ELSE @],
      Event("destroy", "buffer", b, 0, <<>>))

\* GPUCommandEncoder.copyBufferToBuffer from staging buffer b, on encoder e
copyBufferToBuffer(s, e, b, count) ==
  Log([encode(s, e, "copyBufferToBuffer")
         EXCEPT !.buffers[b].copyEnc = e,
                !.buffers[b].copyLive = ~s.encoders[e].finished],
      Event("copyBufferToBuffer", "upload", e, b, <<count>>))

\* The target of a draw or a binding: a bundle, a pass, or null.
NullTarget == [kind |-> "null", id |-> 0]

\* A command recorded on a render bundle encoder, a render pass or a
\* compute pass; on null it is a TypeError.
record(s, target, cmd, arg) ==
  IF target.kind = "null" THEN Throw(s)
  ELSE IF target.kind = "bundle"
       THEN Log([s EXCEPT !.bundles[target.id].cmds = Append(@, <<cmd, arg>>)],
                Event(cmd, "bundle", target.id, arg, <<>>))
       ELSE Log([s EXCEPT !.passes[target.id].cmds = Append(@, <<cmd, arg>>)],
                Event(cmd, "pass", target.id, arg, <<>>))

\* ------------------------------------------------- the engine's methods

\* loadValue / depthLoadValue / stencilLoadValue: a value to clear to, or
\* WebGPUConstants.LoadOp.Load.
ClearTo(v) == [load |-> FALSE, value |-> v]
LoadOp_Load == [load |-> TRUE, value |-> <<>>]

\* initMainAttachments that destroys no texture it replaces.
initMainAttachments_keep(s) ==
  LET s0 == [s EXCEPT !.mainTextureExtends = <<s.canvas[1], s.canvas[2], 1>>]
      s1 == IF s0.options.antialiasing
            THEN IF ~s0.device THEN Throw(s0)
                 ELSE LET b == createTexture(s0, "color", s0.mainTextureExtends,
                                             s0.mainPassSampleCount)
                      IN [b EXCEPT !.mainTexture = b.ret,
                                   !.mainColorAttachments =
                                     << [attachment |-> [kind |-> "texture", id |-> b.ret],
                                         loadValue |-> ClearTo(<<0, 0, 0, 1>>),
                                         resolveTarget |-> NoView] >>]
            ELSE IF ~s0.swapChain THEN Throw(s0)
                 ELSE LET b == getCurrentTexture(s0)
                      IN [b EXCEPT !.mainColorAttachments =
                                     << [attachment |-> b.ret,
                                         loadValue |-> ClearTo(<<0, 0, 0, 1>>),
                                         resolveTarget |-> NoView] >>]
  IN IF s1.err # "none" THEN s1
     ELSE LET d == createTexture(s1, "depth", s1.mainTextureExtends,
                                 s1.mainPassSampleCount)
          IN [d EXCEPT !.depthTexture = d.ret,
                       !.mainDepthAttachment =
                         << [attachment |-> [kind |-> "texture", id |-> d.ret],
                             depthLoadValue |-> ClearTo(<<clearDepthValue>>),
                             stencilLoadValue |-> ClearTo(<<clearStencilValue>>)] >>]

\* initMainAttachments
initMainAttachments(s) ==
  LET s0 == [s EXCEPT !.mainTextureExtends = <<s.canvas[1], s.canvas[2], 1>>]
      \* the color attachment: lines 561-591
      s1 == IF s0.options.antialiasing
            THEN LET a == IF s0.mainTexture # 0
                          THEN destroyTexture(s0, s0.mainTexture) ELSE s0
                 IN IF ~a.device THEN Throw(a)
                    ELSE LET b == createTexture(a, "color", a.mainTextureExtends,
                                                a.mainPassSampleCount)
                         IN [b EXCEPT !.mainTexture = b.ret,
                                      !.mainColorAttachments =
                                        << [attachment |-> [kind |-> "texture", id |-> b.ret],
                                            loadValue |-> ClearTo(<<0, 0, 0, 1>>),
                                            resolveTarget |-> NoView] >>]
            ELSE IF ~s0.swapChain THEN Throw(s0)
                 ELSE LET b == getCurrentTexture(s0)
                      IN [b EXCEPT !.mainColorAttachments =
                                     << [attachment |-> b.ret,
                                         loadValue |-> ClearTo(<<0, 0, 0, 1>>),
                                         resolveTarget |-> NoView] >>]
  IN IF s1.err # "none" THEN s1
     ELSE \* the depth attachment: lines 593-613
          LET c == IF s1.depthTexture # 0
                   THEN destroyTexture(s1, s1.depthTexture) ELSE s1
              d == createTexture(c, "depth", c.mainTextureExtends,
                                 c.mainPassSampleCount)
          IN [d EXCEPT !.depthTexture = d.ret,
                       !.mainDepthAttachment =
                         << [attachment |-> [kind |-> "texture", id |-> d.ret],
                             depthLoadValue |-> ClearTo(<<clearDepthValue>>),
                             stencilLoadValue |-> ClearTo(<<clearStencilValue>>)] >>]

\* init: the adapter and the device are obtained, the swap chain is
\* configured and the attachments are created.
init(s) ==
  initMainAttachments([s EXCEPT !.device = TRUE, !.swapChain = TRUE])

\* beginFrame
beginFrame(s) ==
  IF ~s.device THEN Throw(s)
  ELSE LET u == createCommandEncoder(s, "upload")
           r == createCommandEncoder([u EXCEPT !.uploadEncoder = u.ret], "render")
           c == createCommandEncoder([r EXCEPT !.renderEncoder = r.ret], "compute")
       IN [c EXCEPT !.computeEncoder = c.ret]

\* endRenderPass that forgets the pass without ending it.
endRenderPass_forget(s) == [s EXCEPT !.currentRenderPass = 0]

\* endRenderPass
endRenderPass(s) ==
  IF s.currentRenderPass # 0
  THEN [endPass(s, s.currentRenderPass) EXCEPT !.currentRenderPass = 0]
  ELSE s

\* endComputePass
endComputePass(s) ==
  IF s.currentComputePass # 0
  THEN [endPass(s, s.currentComputePass) EXCEPT !.currentComputePass = 0]
  ELSE s

\* startComputePass, lines 617-619: an open compute pass is ended first.
endOpenComputePass(s) ==
  IF s.currentComputePass # 0 THEN endComputePass(s) ELSE s

\* startComputePass
startComputePass(s) ==
  LET a == endOpenComputePass(s) IN
  IF a.computeEncoder = 0 THEN Throw(a)
  ELSE LET b == beginPass(a, "compute", a.computeEncoder, NoView, NoView)
       IN [b EXCEPT !.currentComputePass = b.ret]

\* startMainRenderPass that leaves the open render pass as it is.
endOpenRenderPass_skip(s) == s

\* startMainRenderPass, lines 625-627: an open render pass is ended first.
endOpenRenderPass(s) ==
  IF s.currentRenderPass # 0 THEN endRenderPass(s) ELSE s

\* startMainRenderPass that takes no image from the swap chain and begins
\* the pass on the attachments as they are.
startMainRenderPass_stale(s) ==
  LET a == endOpenRenderPass(s) IN
  IF a.mainColorAttachments = <<>> \/ ~a.swapChain THEN Throw(a)
  ELSE IF a.renderEncoder = 0 THEN Throw(a)
       ELSE LET d == beginPass(a, "render", a.renderEncoder,
                               a.mainColorAttachments[1],
                               a.mainDepthAttachment[1])
            IN [d EXCEPT !.currentRenderPass = d.ret]

\* startMainRenderPass
startMainRenderPass(s) ==
  LET a == endOpenRenderPass(s) IN
  \* this.mainColorAttachments[0] and this.swapChain are both read
  IF a.mainColorAttachments = <<>> \/ ~a.swapChain THEN Throw(a)
  ELSE LET b == getCurrentTexture(a)
           c == IF b.options.antialiasing
                THEN [b EXCEPT !.mainColorAttachments[1].resolveTarget = b.ret]
                ELSE [b EXCEPT !.mainColorAttachments[1].attachment = b.ret]
       IN IF c.renderEncoder = 0 THEN Throw(c)
          ELSE LET d == beginPass(c, "render", c.renderEncoder,
                                  c.mainColorAttachments[1],
                                  c.mainDepthAttachment[1])
               IN [d EXCEPT !.currentRenderPass = d.ret]

\* endFrame that ends the render pass alone.
endFramePasses_renderOnly(s) ==
  IF s.currentRenderPass # 0
  THEN [endPass(s, s.currentRenderPass) EXCEPT !.currentRenderPass = 0]
  ELSE s

\* endFrame, lines 128-132: the open passes are ended.
endFramePasses(s) ==
  LET a == endRenderPass(s) IN
  IF a.options.supportCompute THEN endComputePass(a) ELSE a

\* endFrame that finishes the compute stream into slot 1 and the render
\* stream into slot 2.
finishStreams_swapped(s) ==
  LET u == finish(s, s.uploadEncoder)
      c == finish([u EXCEPT !.commandBuffers[1] = u.ret], u.computeEncoder)
      r == finish([c EXCEPT !.commandBuffers[2] = c.ret], c.renderEncoder)
  IN [r EXCEPT !.commandBuffers[3] = r.ret]

\* endFrame, lines 134-136: the three streams are finished into their slots.
finishStreams(s) ==
  LET u == finish(s, s.uploadEncoder)
      r == finish([u EXCEPT !.commandBuffers[1] = u.ret], u.renderEncoder)
      c == finish([r EXCEPT !.commandBuffers[2] = r.ret], r.computeEncoder)
  IN [c EXCEPT !.commandBuffers[3] = c.ret]

RECURSIVE destroyAll(_, _)
\* tempBuffers.forEach((buffer) => buffer.destroy())
destroyAll(s, bs) ==
  IF bs = <<>> THEN s ELSE destroyAll(destroyBuffer(s, Head(bs)), Tail(bs))

\* endFrame that destroys the staging buffers and keeps them registered.
submitAndRelease_keepRegistry(s) ==
  LET a == submit(s, s.commandBuffers)
  IN destroyAll(a, a.tempBuffers)

\* endFrame, lines 138-141: the batch is submitted, then the staging
\* buffers are destroyed and the registry is emptied.
submitAndRelease(s) ==
  LET a == submit(s, s.commandBuffers)
      b == destroyAll(a, a.tempBuffers)
  IN [b EXCEPT !.tempBuffers = <<>>]

\* endFrame
endFrame(s) ==
  LET a == endFramePasses(s) IN
  IF a.uploadEncoder = 0 THEN Throw(a)
  ELSE submitAndRelease(finishStreams(a))

\* startRecordBundle
startRecordBundle(s) ==
  IF ~s.device THEN Throw(s)
  ELSE LET b == createRenderBundleEncoder(s, "bgra8unorm", s.mainPassSampleCount)
       IN [b EXCEPT !.bundleEncoder = b.ret]

\* stopRecordBundle
stopRecordBundle(s) ==
  IF s.bundleEncoder = 0 THEN Throw(s)
  ELSE [finishBundle(s, s.bundleEncoder) EXCEPT !.bundleEncoder = 0]

\* The live render pass as a target (null when none is open).
LivePass(s) ==
  IF s.currentRenderPass # 0 THEN [kind |-> "pass", id |-> s.currentRenderPass]
  ELSE NullTarget

\* if (!this.currentRenderPass) { this.startMainRenderPass(); }
ensureRenderPass(s) ==
  IF s.currentRenderPass = 0 THEN startMainRenderPass(s) ELSE s

\* executeBundles
executeBundles(s) ==
  LET a == ensureRenderPass(s) IN
  IF a.err # "none" \/ a.currentRenderPass = 0 THEN a
  ELSE record(a, LivePass(a), "executeBundles", 0)

\* enableScissor
enableScissor(s) ==
  LET a == ensureRenderPass(s) IN
  IF a.err # "none" THEN a ELSE record(a, LivePass(a), "setScissorRect", 1)

\* disableScissor
disableScissor(s) ==
  LET a == ensureRenderPass(s) IN
  IF a.err # "none" \/ a.currentRenderPass = 0 THEN a
  ELSE record(a, LivePass(a), "setScissorRect", 0)

\* setSize: width and height are not read.
setSize(s, width, height) == initMainAttachments(s)

\* clear that starts the compute pass whatever the options say.
clear_alwaysCompute(s, color, backBuffer, depth, stencil) ==
  IF s.mainColorAttachments = <<>> THEN Throw(s)
  ELSE LET a == [s EXCEPT
                   !.mainColorAttachments[1].loadValue =
                       IF backBuffer THEN ClearTo(color) ELSE LoadOp_Load,
                   !.mainDepthAttachment[1].depthLoadValue =
                       IF depth THEN ClearTo(<<clearDepthValue>>) ELSE LoadOp_Load,
                   !.mainDepthAttachment[1].stencilLoadValue =
                       IF stencil THEN ClearTo(<<clearStencilValue>>) ELSE LoadOp_Load]
           b == startMainRenderPass(a)
       IN IF b.err # "none" THEN b ELSE startComputePass(b)

\* clear that sets the load value of the color attachment alone.
clear_colorOnly(s, color, backBuffer, depth, stencil) ==
  IF s.mainColorAttachments = <<>> THEN Throw(s)
  ELSE LET a == [s EXCEPT
                   !.mainColorAttachments[1].loadValue =
                       IF backBuffer THEN ClearTo(color) ELSE LoadOp_Load]
           b == startMainRenderPass(a)
       IN IF b.err # "none" THEN b
          ELSE IF b.options.supportCompute THEN startComputePass(b) ELSE b

\* clear
clear(s, color, backBuffer, depth, stencil) ==
  IF s.mainColorAttachments = <<>> THEN Throw(s)
  ELSE LET a == [s EXCEPT
                   !.mainColorAttachments[1].loadValue =
                       IF backBuffer THEN ClearTo(color) ELSE LoadOp_Load,
                   !.mainDepthAttachment[1].depthLoadValue =
                       IF depth THEN ClearTo(<<clearDepthValue>>) ELSE LoadOp_Load,
                   !.mainDepthAttachment[1].stencilLoadValue =
                       IF stencil THEN ClearTo(<<clearStencilValue>>) ELSE LoadOp_Load]
           b == startMainRenderPass(a)
       IN IF b.err # "none" THEN b
          ELSE IF b.options.supportCompute THEN startComputePass(b) ELSE b

\* dispose without the checks that the textures exist.
dispose_unguarded(s) ==
  IF s.mainTexture = 0 THEN Throw(s)
  ELSE LET a == destroyTexture(s, s.mainTexture)
       IN IF a.depthTexture = 0 THEN Throw(a)
          ELSE destroyTexture(a, a.depthTexture)

\* dispose
dispose(s) ==
  LET a == IF s.mainTexture # 0 THEN destroyTexture(s, s.mainTexture) ELSE s
  IN IF a.depthTexture # 0 THEN destroyTexture(a, a.depthTexture) ELSE a

\* ----------------------------------------------------- the pipeline caches

\* A cache that is never hit.
cacheHit_never(s, name) == FALSE

\* if (this.pipelines[name]), line 762
cacheHit(s, name) == s.pipelines[name] # 0

\* A check of the vertex stage alone.
stagesPresent_vertexOnly(d) == d.vertexStage

\* if (vertexStage && fragmentStage), line 777
stagesPresent(d) == d.vertexStage /\ d.fragmentStage

\* A pipeline compiled with a sample count of 1.
createRenderPipeline_single(s, d) ==
  LET id == Len(s.renderPipelineObjs) + 1 IN
  Log([s EXCEPT !.renderPipelineObjs =
                   Append(@, [desc |-> d, sampleCount |-> 1,
                              colorFormat |-> s.options.swapChainFormat]),
                !.ret = id],
      Event("createRenderPipeline", "pipeline", id, 1, <<>>))

\* GPUDevice.createRenderPipeline with the descriptor of lines 778-794:
\* colorStates is not given, so the default color state is used.
createRenderPipeline(s, d) ==
  LET id == Len(s.renderPipelineObjs) + 1 IN
  Log([s EXCEPT !.renderPipelineObjs =
                   Append(@, [desc |-> d, sampleCount |-> s.mainPassSampleCount,
                              colorFormat |-> s.options.swapChainFormat]),
                !.ret = id],
      Event("createRenderPipeline", "pipeline", id, s.mainPassSampleCount, <<>>))

\* The outcome of a fetch, as getRenderPipeline leaves it in fetch.
Fetched(s, name, d, result, compiled, threw) ==
  [s EXCEPT !.fetch = [name |-> name, desc |-> d, result |-> result,
                       compiled |-> compiled, threw |-> threw,
                       device |-> s.device, frame |-> s.renderEncoder,
                       pass |-> s.currentRenderPass]]

\* getRenderPipeline
getRenderPipeline(s, name, d) ==
  IF cacheHit(s, name)
  THEN Fetched(s, name, d, s.pipelines[name], FALSE, FALSE)
  ELSE IF stagesPresent(d)
       THEN IF ~s.device
            THEN Throw(Fetched(s, name, d, 0, FALSE, TRUE))
            ELSE LET a == createRenderPipeline(s, d)
                 IN Fetched([a EXCEPT !.pipelines[name] = a.ret],
                            name, d, a.ret, TRUE, FALSE)
       ELSE Fetched(s, name, d, 0, FALSE, FALSE)

\* this.currentRenderPass || this.bundleEncoder
activeTarget_passFirst(s) ==
  IF s.currentRenderPass # 0 THEN [kind |-> "pass", id |-> s.currentRenderPass]
  ELSE IF s.bundleEncoder # 0 THEN [kind |-> "bundle", id |-> s.bundleEncoder]
  ELSE NullTarget

\* this.bundleEncoder || this.currentRenderPass!
activeTarget(s) ==
  IF s.bundleEncoder # 0 THEN [kind |-> "bundle", id |-> s.bundleEncoder]
  ELSE LivePass(s)

\* setRenderPipeline
setRenderPipeline(s, name, d) ==
  LET renderPass == activeTarget(s)
      a == getRenderPipeline(s, name, d)
  IN IF a.err # "none" THEN a
     ELSE IF a.fetch.result # 0
          THEN record(a, renderPass, "setPipeline", a.fetch.result)
          ELSE a

\* drawElementsType
drawElementsType(s, name, d, indexStart, indexCount, instancesCount) ==
  LET renderPass == activeTarget(s)
      a == setRenderPipeline(s, name, d)
  IN IF a.err # "none" THEN a
     ELSE record(a, renderPass, "drawIndexed", indexCount)

\* drawArraysType that binds the pipeline and issues no draw.
drawArraysType_bindOnly(s, name, d, verticesStart, verticesCount, instancesCount) ==
  setRenderPipeline(s, name, d)

\* drawArraysType
drawArraysType(s, name, d, verticesStart, verticesCount, instancesCount) ==
  LET renderPass == activeTarget(s)
      a == setRenderPipeline(s, name, d)
  IN IF a.err # "none" THEN a
     ELSE record(a, renderPass, "draw", verticesCount)

RECURSIVE setBindGroups(_, _, _, _)
\* for (let i = 0; i < bindGroups.length; i++) target.setBindGroup(i, ...)
setBindGroups(s, target, i, n) ==
  IF i >= n \/ s.err # "none" THEN s
  ELSE setBindGroups(record(s, target, "setBindGroup", i), target, i + 1, n)

\* setRenderBindGroups
setRenderBindGroups(s, n) == setBindGroups(s, activeTarget(s), 0, n)

\* The open compute pass as a target.
ComputePass(s) == [kind |-> "pass", id |-> s.currentComputePass]

\* setComputeBindGroups
setComputeBindGroups(s, n) ==
  IF s.currentComputePass # 0 THEN setBindGroups(s, ComputePass(s), 0, n) ELSE s

\* GPUDevice.createComputePipeline: the descriptor is taken as it is.
createComputePipeline(s, d) ==
  LET id == Len(s.computePipelineObjs) + 1 IN
  Log([s EXCEPT !.computePipelineObjs = Append(@, [desc |-> d]), !.ret = id],
      Event("createComputePipeline", "pipeline", id, 0, <<>>))

\* setComputePipeline that compiles at every call.
setComputePipeline_recompile(s, name, d) ==
  LET a == IF ~s.device THEN Throw(s)
           ELSE LET b == createComputePipeline(s, d)
                IN [b EXCEPT !.computePipelines[name] = b.ret]
  IN IF a.err # "none" \/ a.currentComputePass = 0 THEN a
     ELSE record(a, ComputePass(a), "setPipeline", a.computePipelines[name])

\* setComputePipeline
setComputePipeline(s, name, d) ==
  LET a == IF s.computePipelines[name] = 0
           THEN IF ~s.device THEN Throw(s)
                ELSE LET b == createComputePipeline(s, d)
                     IN [b EXCEPT !.computePipelines[name] = b.ret]
           ELSE s
  IN IF a.err # "none" \/ a.currentComputePass = 0 THEN a
     ELSE record(a, ComputePass(a), "setPipeline", a.computePipelines[name])

\* dispatch without the check of the compute pass.
dispatch_unguarded(s, num) ==
  record(s, IF s.currentComputePass # 0
            THEN [kind |-> "pass", id |-> s.currentComputePass] ELSE NullTarget,
         "dispatch", num)

\* dispatch
dispatch(s, num) ==
  IF s.currentComputePass # 0 THEN record(s, ComputePass(s), "dispatch", num) ELSE s

RECURSIVE setVertexBuffers(_, _, _, _)
\* bindVertexInputs, lines 501-510: the holes are skipped.
setVertexBuffers(s, target, vbs, i) ==
  IF i > Len(vbs) \/ s.err # "none" THEN s
  ELSE setVertexBuffers(IF vbs[i] # 0
                        THEN record(s, target, "setVertexBuffer", i - 1) ELSE s,
                        target, vbs, i + 1)

\* bindVertexInputs
bindVertexInputs(s, vi) ==
  LET renderPass == activeTarget(s)
      a == IF vi.indexBuffer THEN record(s, renderPass, "setIndexBuffer", 0) ELSE s
  IN setVertexBuffers(a, renderPass, vi.vertexBuffers, 1)

\* ------------------------------------------------------------ the buffers

\* setSubData with line 481 in place: the staging buffer is destroyed at once.
registerTemp_destroyNow(s, b) ==
  [destroyBuffer(s, b) EXCEPT !.tempBuffers = Append(@, b)]

\* setSubData, line 482: the staging buffer is registered for the release
\* at the end of the frame, and not destroyed here.
registerTemp(s, b) == [s EXCEPT !.tempBuffers = Append(@, b)]

\* setSubData
setSubData(s, destBuffer, destOffset, byteCount) ==
  IF ~s.device THEN Throw(s)
  ELSE LET a == newBuffer(s, "staging", byteCount)
           srcBuffer == a.ret
       IN IF a.uploadEncoder = 0 THEN Throw(a)
          ELSE registerTemp(copyBufferToBuffer(a, a.uploadEncoder, srcBuffer, byteCount),
                            srcBuffer)

\* createBuffer, lines 523-525: the size of the buffer created for byteLength
paddedSize(byteLength) == byteLength + (byteLength % 4)

\* createBuffer
createBuffer(s, byteLength, usage) ==
  IF ~s.device THEN Throw(s)
  ELSE LET a == newBuffer(s, usage, paddedSize(byteLength))
           buffer == a.ret
       IN [setSubData(a, buffer, 0, byteLength) EXCEPT !.ret = buffer]

\* createVertexBuffer
createVertexBuffer(s, byteLength) == createBuffer(s, byteLength, "vertex")

\* createUniformBuffer
createUniformBuffer(s, byteLength) == createBuffer(s, byteLength, "uniform")

\* ------------------------------------------------------------- the calls

NoCommandBuffer == [encoder |-> 0, label |-> "", cmds |-> <<>>, valid |-> FALSE]

\* The state after construction with options drawn from optionSet:
\* lines 55-99.
Constructed(optionSet) ==
  /\ canvas \in CanvasSizes
  /\ options \in optionSet
  /\ device = FALSE
  /\ swapChain = FALSE
  /\ pipelines = [n \in Names |-> 0]
  /\ computePipelines = [n \in Names |-> 0]
  /\ mainPassSampleCount = IF options.antialiasing THEN defaultSampleCount ELSE 1
  /\ mainTexture = 0
  /\ depthTexture = 0
  /\ mainColorAttachments = <<>>
  /\ mainTextureExtends = <<>>
  /\ mainDepthAttachment = <<>>
  /\ uploadEncoder = 0
  /\ renderEncoder = 0
  /\ computeEncoder = 0
  /\ commandBuffers = <<NoCommandBuffer, NoCommandBuffer, NoCommandBuffer>>
  /\ currentRenderPass = 0
  /\ currentComputePass = 0
  /\ bundleEncoder = 0
  /\ tempBuffers = <<>>
  /\ encoders = <<>>
  /\ passes = <<>>
  /\ bundles = <<>>
  /\ buffers = <<>>
  /\ textures = <<>>
  /\ queue = <<>>
  /\ images = 0
  /\ renderPipelineObjs = <<>>
  /\ computePipelineObjs = <<>>
  /\ frameOpen = FALSE
  /\ fetchLog = [n \in Names |-> <<>>]
  /\ lastCall = [op |-> "new", err |-> "none", trace |-> <<>>, fetch |-> NoFetch,
                 req |-> <<>>,
                 pre |-> [bundleEncoder |-> 0, currentRenderPass |-> 0,
                          currentComputePass |-> 0, frameOpen |-> FALSE,
                          pipelines |-> [n \in Names |-> 0]]]
  /\ calls = 0

Init == Constructed(OptionSet)

\* The first two fetches made under each name are remembered.
Remember(log, f) ==
  IF f.name \in Names /\ Len(log[f.name]) < 2
  THEN [log EXCEPT ![f.name] = Append(@, f)]
  ELSE log

\* The call op took the engine and the device from St to t.  lastCall keeps
\* what the call did and, in pre, the fields it found.
Effect(op, t) ==
  /\ canvas' = t.canvas
  /\ options' = t.options
  /\ device' = t.device
  /\ swapChain' = t.swapChain
  /\ pipelines' = t.pipelines
  /\ computePipelines' = t.computePipelines
  /\ mainPassSampleCount' = t.mainPassSampleCount
  /\ mainTexture' = t.mainTexture
  /\ depthTexture' = t.depthTexture
  /\ mainColorAttachments' = t.mainColorAttachments
  /\ mainTextureExtends' = t.mainTextureExtends
  /\ mainDepthAttachment' = t.mainDepthAttachment
  /\ uploadEncoder' = t.uploadEncoder
  /\ renderEncoder' = t.renderEncoder
  /\ computeEncoder' = t.computeEncoder
  /\ commandBuffers' = t.commandBuffers
  /\ currentRenderPass' = t.currentRenderPass
  /\ currentComputePass' = t.currentComputePass
  /\ bundleEncoder' = t.bundleEncoder
  /\ tempBuffers' = t.tempBuffers
  /\ encoders' = t.encoders
  /\ passes' = t.passes
  /\ bundles' = t.bundles
  /\ buffers' = t.buffers
  /\ textures' = t.textures
  /\ queue' = t.queue
  /\ images' = t.images
  /\ renderPipelineObjs' = t.renderPipelineObjs
  /\ computePipelineObjs' = t.computePipelineObjs
  /\ frameOpen' = IF t.err # "none" THEN frameOpen
                  ELSE IF op = "beginFrame" THEN TRUE
                  ELSE IF op = "endFrame" THEN FALSE
                  ELSE frameOpen
  /\ fetchLog' = Remember(fetchLog, t.fetch)
  /\ lastCall' = [op |-> op, err |-> t.err, trace |-> t.trace, fetch |-> t.fetch,
                  req |-> t.req,
                  pre |-> [bundleEncoder |-> bundleEncoder,
                           currentRenderPass |-> currentRenderPass,
                           currentComputePass |-> currentComputePass,
                           frameOpen |-> frameOpen,
                           pipelines |-> pipelines]]

\* A public call: it is counted, and takes the engine from St to t.
Call(op, t) == calls' = calls + 1 /\ Effect(op, t)

\* init is called once; it is not counted.
InitCall == ~device /\ UNCHANGED calls /\ Effect("init", init(St))

BeginFrame == Call("beginFrame", beginFrame(St))
EndFrame == Call("endFrame", endFrame(St))
StartRecordBundle == Call("startRecordBundle", startRecordBundle(St))
StopRecordBundle == Call("stopRecordBundle", stopRecordBundle(St))
ExecuteBundles == Call("executeBundles", executeBundles(St))
EnableScissor == Call("enableScissor", enableScissor(St))
DisableScissor == Call("disableScissor", disableScissor(St))
SetSize(sizes) ==
  \E wh \in sizes :
    Call("setSize", setSize([St EXCEPT !.req = wh], wh[1], wh[2]))
Clear(args) ==
  \E c \in args :
    Call("clear", clear([St EXCEPT !.req = <<c>>],
                        c.color, c.backBuffer, c.depth, c.stencil))
Dispose == Call("dispose", dispose(St))
DrawElementsType(names, descs) ==
  \E n \in names, d \in descs :
    Call("drawElementsType", drawElementsType(St, n, d, 0, 3, 1))
DrawArraysType(names, descs) ==
  \E n \in names, d \in descs :
    Call("drawArraysType", drawArraysType(St, n, d, 0, 3, 1))
CreateVertexBuffer(lengths) ==
  \E len \in lengths :
    Call("createVertexBuffer", createVertexBuffer([St EXCEPT !.req = <<len>>], len))
CreateUniformBuffer(lengths) ==
  \E len \in lengths :
    Call("createUniformBuffer", createUniformBuffer([St EXCEPT !.req = <<len>>], len))
SetRenderBindGroups(counts) ==
  \E n \in counts : Call("setRenderBindGroups", setRenderBindGroups(St, n))
SetComputeBindGroups(counts) ==
  \E n \in counts : Call("setComputeBindGroups", setComputeBindGroups(St, n))
SetComputePipeline(names, descs) ==
  \E n \in names, d \in descs :
    Call("setComputePipeline", setComputePipeline(St, n, d))
SetSubData(lengths) ==
  \E len \in lengths :
    Call("setSubData", setSubData([St EXCEPT !.req = <<len>>], 0, 0, len))
BindVertexInputs(inputs) ==
  \E vi \in inputs : Call("bindVertexInputs", bindVertexInputs(St, vi))
Dispatch == Call("dispatch", dispatch(St, 1))

\* ---------------------------------------------------- the specifications

\* Every public operation, in any order, MaxCalls calls long.
AnyCall ==
  \/ BeginFrame
  \/ EndFrame
  \/ StartRecordBundle
  \/ StopRecordBundle
  \/ ExecuteBundles
  \/ EnableScissor
  \/ DisableScissor
  \/ SetSize(SizeArgs)
  \/ Clear(ClearArgs)
  \/ Dispose
  \/ DrawElementsType({"a"}, Descs)
  \/ DrawArraysType({"a"}, Descs)
  \/ CreateVertexBuffer(ByteLengths)
  \/ CreateUniformBuffer(ByteLengths)
  \/ SetRenderBindGroups(BindGroupCounts)
  \/ SetComputeBindGroups(BindGroupCounts)
  \/ SetComputePipeline({"a"}, ComputeDescs)
  \/ SetSubData(ByteLengths)
  \/ BindVertexInputs(VertexInputs)
  \/ Dispatch

Next == InitCall \/ (calls < MaxCalls /\ AnyCall)

Spec == Init /\ [][Next]_vars

\* The frame life cycle at length: frames are begun and ended, and between
\* the two every one of the three streams is recorded into.
FrameCall ==
  \/ BeginFrame
  \/ EndFrame
  \/ Clear({[color |-> <<1, 1, 1, 1>>, backBuffer |-> TRUE, depth |-> TRUE,
             stencil |-> FALSE]})
  \/ DrawArraysType({"a"}, {[vertexStage |-> TRUE, fragmentStage |-> TRUE, tag |-> 1]})
  \/ SetSubData(ByteLengths)
  \/ CreateVertexBuffer(ByteLengths)
  \/ Dispatch

FrameNext == InitCall \/ (calls < MaxFrameCalls /\ FrameCall)

FrameSpec == Init /\ [][FrameNext]_vars

\* Bundle recording beside a live render pass: the draws and the bindings
\* made while a bundle, a pass, both or neither is open.
BundleCall ==
  \/ BeginFrame
  \/ Clear({[color |-> <<1, 1, 1, 1>>, backBuffer |-> TRUE, depth |-> TRUE,
             stencil |-> FALSE]})
  \/ EndFrame
  \/ StartRecordBundle
  \/ StopRecordBundle
  \/ ExecuteBundles
  \/ DrawElementsType({"a"}, {d \in Descs : d.tag = 1})
  \/ DrawArraysType({"a"}, {d \in Descs : d.tag = 1})
  \/ SetRenderBindGroups({2})
  \/ BindVertexInputs(VertexInputs)

BundleNext == InitCall \/ (calls < MaxBundleCalls /\ BundleCall)

BundleSpec == Init /\ [][BundleNext]_vars

\* The configuration at work: an engine constructed with any swap chain
\* format is resized, opens render passes on its attachments, records
\* bundles and compiles pipelines.
ConfigInit == Constructed(ConfigOptionSet)

ConfigCall ==
  \/ SetSize(ResizeArgs)
  \/ BeginFrame
  \/ Clear({[color |-> <<1, 1, 1, 1>>, backBuffer |-> TRUE, depth |-> TRUE,
             stencil |-> FALSE]})
  \/ EndFrame
  \/ StartRecordBundle
  \/ DrawArraysType({"a"}, {[vertexStage |-> TRUE, fragmentStage |-> TRUE, tag |-> 1]})

ConfigNext == InitCall \/ (calls < MaxConfigCalls /\ ConfigCall)

ConfigSpec == ConfigInit /\ [][ConfigNext]_vars

\* Buffers of every length: vertex and uniform buffers are created and
\* written, inside a frame and outside.
BufferCall ==
  \/ BeginFrame
  \/ EndFrame
  \/ CreateVertexBuffer(BufferLengths)
  \/ CreateUniformBuffer(BufferLengths)
  \/ SetSubData(BufferLengths)

BufferNext == InitCall \/ (calls < MaxBufferCalls /\ BufferCall)

BufferSpec == Init /\ [][BufferNext]_vars

\* The render passes at length: every operation that begins a render
\* pass, the frames around them and the reconfiguration of the
\* attachments between them.
PassCall ==
  \/ BeginFrame
  \/ EndFrame
  \/ Clear(ClearArgs)
  \/ ExecuteBundles
  \/ EnableScissor
  \/ DisableScissor
  \/ SetSize(SizeArgs)

PassNext == InitCall \/ (calls < MaxPassCalls /\ PassCall)

PassSpec == Init /\ [][PassNext]_vars

\* ------------------------------------------------------------ the claims

\* The events of the last call's trace that are calls of ev.
EventsOf(ev) == {i \in DOMAIN lastCall.trace : lastCall.trace[i].ev = ev}

\* The commands a draw or a binding records on its target.
DrawCmds == {"draw", "drawIndexed"}
BindCmds == {"setPipeline", "setBindGroup", "setIndexBuffer", "setVertexBuffer"}
DrawOps == {"drawArraysType", "drawElementsType"}

\* C1: every endFrame that ends a frame begun by beginFrame makes exactly
\* one submit call, of exactly 3 command buffers: slot 0 the finished
\* upload stream, slot 1 the finished render stream, slot 2 the finished
\* compute stream, the three streams being the ones the latest beginFrame
\* opened, each finished for the first time with no pass left open and
\* holding what was recorded on it, which may be nothing.
C1_EndFrameSubmitsThree ==
  (lastCall.op = "endFrame" /\ lastCall.pre.frameOpen) =>
    LET n == Len(encoders)
        batch == queue[Len(queue)]
    IN /\ lastCall.err = "none"
       /\ Cardinality(EventsOf("submit")) = 1
       /\ \A i \in EventsOf("submit") :
            /\ lastCall.trace[i].arg = 3
            /\ lastCall.trace[i].list = <<n - 2, n - 1, n>>
            /\ \A j \in EventsOf("finish") : j < i
       /\ Len(batch) = 3
       /\ <<batch[1].label, batch[2].label, batch[3].label>>
            = <<"upload", "render", "compute">>
       /\ \A k \in 1..3 :
            /\ batch[k].encoder = n - 3 + k
            /\ batch[k].valid
            /\ batch[k].cmds = encoders[n - 3 + k].cmds
            /\ batch[k] = commandBuffers[k]

\* C1's case: the second frame of two is submitted, its upload and render
\* streams with commands on them, its compute stream with none.
C1_Witness ==
  /\ lastCall.op = "endFrame"
  /\ lastCall.pre.frameOpen
  /\ Len(queue) = 2
  /\ queue[1][1].cmds = <<>>
  /\ queue[2][2].cmds # <<>>
  /\ queue[2][3].cmds = <<>>

\* C2: a staging buffer is destroyed only after a batch was submitted since
\* it was created, and within a call every destroy of a buffer comes after
\* the call's submit.
C2_DestroyAfterSubmit ==
  /\ \A b \in DOMAIN buffers :
       (buffers[b].usage = "staging" /\ buffers[b].destroys > 0)
         => buffers[b].died > buffers[b].born
  /\ \A i \in EventsOf("destroy") :
       lastCall.trace[i].kind = "buffer"
         => \E j \in EventsOf("submit") : j < i

\* C2's case: a frame in which createVertexBuffer or createUniformBuffer
\* allocated a staging buffer has ended, and the buffer is destroyed.
C2_Witness ==
  /\ lastCall.op = "endFrame"
  /\ \E b \in DOMAIN buffers :
       /\ buffers[b].usage = "staging"
       /\ buffers[b].destroys = 1
       /\ b > 1
       /\ buffers[b - 1].usage \in {"vertex", "uniform"}

\* The first and the second fetch made under name n.
Fetch1(n) == fetchLog[n][1]
Fetch2(n) == fetchLog[n][2]

\* C3, as stated: for every name and all descriptions d1 # d2, the fetch
\* with d1 (on an initialised engine) and then the fetch with d2 both
\* return the pipeline compiled from d1, and the second compiles nothing.
C3_AsStated ==
  \A n \in Names :
    (/\ Len(fetchLog[n]) = 2
     /\ Fetch1(n).desc # Fetch2(n).desc
     /\ Fetch1(n).device)
    => /\ Fetch1(n).result # 0
       /\ renderPipelineObjs[Fetch1(n).result].desc = Fetch1(n).desc
       /\ Fetch2(n).result = Fetch1(n).result
       /\ ~Fetch2(n).compiled

\* C3, amended: for every name and all descriptions d1 # d2 where d1
\* carries both a vertex and a fragment stage, the fetch with d1 on an
\* initialised engine compiles a pipeline from d1, and the fetch with d2
\* returns that same pipeline, compiles nothing and leaves it cached.
C3_MemoizationWins ==
  \A n \in Names :
    (/\ Len(fetchLog[n]) = 2
     /\ Fetch1(n).desc # Fetch2(n).desc
     /\ Fetch1(n).desc.vertexStage /\ Fetch1(n).desc.fragmentStage
     /\ Fetch1(n).device)
    => /\ Fetch1(n).result # 0
       /\ Fetch1(n).compiled
       /\ renderPipelineObjs[Fetch1(n).result].desc = Fetch1(n).desc
       /\ Fetch2(n).result = Fetch1(n).result
       /\ ~Fetch2(n).compiled
       /\ ~Fetch2(n).threw
       /\ pipelines[n] = Fetch1(n).result

\* C3's case: a pipeline was compiled from a full d1, and the name was
\* fetched again with another full description.
C3_Witness ==
  /\ Len(fetchLog["a"]) = 2
  /\ Fetch1("a").compiled
  /\ Fetch2("a").desc # Fetch1("a").desc
  /\ Fetch2("a").desc.vertexStage /\ Fetch2("a").desc.fragmentStage

\* The first event of the last call's trace that is a call of ev (0: none).
FirstEvent(ev) ==
  IF EventsOf(ev) = {} THEN 0
  ELSE CHOOSE i \in EventsOf(ev) : \A j \in EventsOf(ev) : i <= j

\* The endPass events of the last call's trace made on pass p.
EndsOf(p) == {i \in EventsOf("endPass") : lastCall.trace[i].obj = p}

\* C4: a call that begins a render (compute) pass while a render (compute)
\* pass is open ends that pass exactly once, before the new pass is begun,
\* and raises no error; no pass is ever begun beside an open pass of its
\* kind, and no pass is ended twice.
C4_StartEndsOpenPass ==
  /\ \A p \in DOMAIN passes : passes[p].siblings = 0 /\ passes[p].ends <= 1
  /\ (lastCall.pre.currentRenderPass # 0 /\ EventsOf("beginRenderPass") # {})
       => /\ Cardinality(EndsOf(lastCall.pre.currentRenderPass)) = 1
          /\ \A j \in EndsOf(lastCall.pre.currentRenderPass) :
               j < FirstEvent("beginRenderPass")
          /\ passes[lastCall.pre.currentRenderPass].ends = 1
          /\ lastCall.err = "none"
  /\ (lastCall.pre.currentComputePass # 0 /\ EventsOf("beginComputePass") # {})
       => /\ Cardinality(EndsOf(lastCall.pre.currentComputePass)) = 1
          /\ \A j \in EndsOf(lastCall.pre.currentComputePass) :
               j < FirstEvent("beginComputePass")
          /\ passes[lastCall.pre.currentComputePass].ends = 1
          /\ lastCall.err = "none"
  /\ (lastCall.op = "clear"
        /\ (lastCall.pre.currentRenderPass # 0 \/ lastCall.pre.currentComputePass # 0))
       => /\ lastCall.err = "none"
          /\ EventsOf("beginRenderPass") # {}

\* C4's case: clear was called with a render pass and a compute pass open.
C4_Witness ==
  /\ lastCall.op = "clear"
  /\ lastCall.pre.currentRenderPass # 0
  /\ lastCall.pre.currentComputePass # 0
  /\ currentRenderPass # lastCall.pre.currentRenderPass
  /\ currentComputePass # lastCall.pre.currentComputePass

\* The passes of a kind that were begun and have not been ended.
OpenPasses(kind) ==
  {p \in DOMAIN passes : passes[p].kind = kind /\ passes[p].ends = 0}

\* C5: at most one render pass and at most one compute pass is begun and
\* not ended, no pass is ended more often than it was begun, and the open
\* pass of a kind is the engine's current pass of that kind.
C5_AtMostOneOpenPass ==
  /\ \A p \in DOMAIN passes : passes[p].ends <= 1
  /\ Cardinality(OpenPasses("render")) <= 1
  /\ Cardinality(OpenPasses("compute")) <= 1
  /\ OpenPasses("render") = IF currentRenderPass = 0 THEN {} ELSE {currentRenderPass}
  /\ OpenPasses("compute") = IF currentComputePass = 0 THEN {} ELSE {currentComputePass}

\* C5's case: passes of both kinds were begun and ended, and one of each
\* kind is open.
C5_Witness ==
  /\ Cardinality(OpenPasses("render")) = 1
  /\ Cardinality(OpenPasses("compute")) = 1
  /\ \E p, q \in DOMAIN passes :
       /\ passes[p].kind = "render" /\ passes[p].ends = 1
       /\ passes[q].kind = "compute" /\ passes[q].ends = 1

\* C6: no stream is finished with a pass begun on it still open, endFrame
\* ends the open passes before it finishes a stream, and after an endFrame
\* that returns no render pass and no compute pass is open.
C6_PassesEndBeforeFinish ==
  /\ \A e \in DOMAIN encoders :
       encoders[e].finished => encoders[e].openAtFinish = 0
  /\ lastCall.op = "endFrame"
       => /\ \A i \in EventsOf("endPass"), j \in EventsOf("finish") : i < j
          /\ lastCall.err = "none"
               => /\ currentRenderPass = 0
                  /\ currentComputePass = 0
                  /\ OpenPasses("render") = {}
                  /\ OpenPasses("compute") = {}

\* C6's case: endFrame was called with a render pass and a compute pass
\* open, and returned.
C6_Witness ==
  /\ lastCall.op = "endFrame"
  /\ lastCall.err = "none"
  /\ lastCall.pre.currentRenderPass # 0
  /\ lastCall.pre.currentComputePass # 0

\* C7: a dispatch made while no compute pass is open raises no error,
\* makes no device call, and leaves every field of the engine and every
\* object of the device as it was.
C7_DispatchWithoutPass ==
  [][(lastCall'.op = "dispatch" /\ currentComputePass = 0)
       => /\ lastCall'.err = "none"
          /\ lastCall'.trace = <<>>
          /\ UNCHANGED <<engineVars, gpuVars>>]_vars

\* C7's case: dispatch was called in an open frame with a render pass
\* open and no compute pass open.
C7_Witness ==
  /\ lastCall.op = "dispatch"
  /\ lastCall.pre.currentComputePass = 0
  /\ lastCall.pre.frameOpen
  /\ lastCall.pre.currentRenderPass # 0

\* The commands of the last call's trace recorded on a bundle or a pass.
Recorded ==
  {i \in DOMAIN lastCall.trace : lastCall.trace[i].ev \in DrawCmds \cup BindCmds}

\* C8: a draw or a binding (pipeline, bind groups, vertex inputs) made
\* while a bundle is open records every one of its commands on that bundle
\* and none on a pass, a render pass being open or not, and a draw then
\* records its draw command; made while no bundle is open and a render
\* pass is, it records them on that pass.
C8_BundleTakesDraws ==
  (lastCall.op \in DrawOps \cup {"setRenderBindGroups", "bindVertexInputs"}) =>
    /\ lastCall.pre.bundleEncoder # 0
         => /\ \A i \in Recorded :
                 /\ lastCall.trace[i].kind = "bundle"
                 /\ lastCall.trace[i].obj = lastCall.pre.bundleEncoder
            /\ lastCall.err = "none"
            /\ lastCall.op \in DrawOps
                 => \E i \in Recorded : lastCall.trace[i].ev \in DrawCmds
            /\ lastCall.op = "setRenderBindGroups" => Recorded # {}
    /\ (lastCall.pre.bundleEncoder = 0 /\ lastCall.pre.currentRenderPass # 0)
         => /\ \A i \in Recorded :
                 /\ lastCall.trace[i].kind = "pass"
                 /\ lastCall.trace[i].obj = lastCall.pre.currentRenderPass
            /\ lastCall.err = "none"
            /\ lastCall.op \in DrawOps
                 => \E i \in Recorded : lastCall.trace[i].ev \in DrawCmds

\* C8's case: a draw was made with a bundle and a render pass both open,
\* and its pipeline was bound.
C8_Witness ==
  /\ lastCall.op = "drawArraysType"
  /\ lastCall.pre.bundleEncoder # 0
  /\ lastCall.pre.currentRenderPass # 0
  /\ \E i \in Recorded : lastCall.trace[i].ev = "setPipeline"
  /\ bundles[lastCall.pre.bundleEncoder].cmds # <<>>
  /\ passes[lastCall.pre.currentRenderPass].cmds = <<>>

\* C9: a fetch under a name that is not cached, with the vertex or the
\* fragment stage absent, returns no pipeline, raises no error, compiles
\* nothing and leaves the name uncached; when the next fetch under the
\* name carries both stages (on an initialised engine) it compiles a
\* pipeline from its description and caches it.
C9_NotReadyThenCompiled ==
  /\ (/\ lastCall.fetch.name \in Names
      /\ lastCall.pre.pipelines[lastCall.fetch.name] = 0
      /\ ~(lastCall.fetch.desc.vertexStage /\ lastCall.fetch.desc.fragmentStage))
     => /\ lastCall.fetch.result = 0
        /\ ~lastCall.fetch.threw
        /\ ~lastCall.fetch.compiled
        /\ pipelines = lastCall.pre.pipelines
        /\ EventsOf("createRenderPipeline") = {}
  /\ \A n \in Names :
       (/\ Len(fetchLog[n]) = 2
        /\ ~(Fetch1(n).desc.vertexStage /\ Fetch1(n).desc.fragmentStage)
        /\ Fetch2(n).desc.vertexStage /\ Fetch2(n).desc.fragmentStage
        /\ Fetch2(n).device)
       => /\ Fetch1(n).result = 0
          /\ ~Fetch2(n).threw
          /\ Fetch2(n).compiled
          /\ Fetch2(n).result # 0
          /\ renderPipelineObjs[Fetch2(n).result].desc = Fetch2(n).desc
          /\ pipelines[n] = Fetch2(n).result

\* C9's case: the first fetch under a name lacked a stage and returned no
\* pipeline, the second carried both and compiled one.
C9_Witness ==
  /\ Len(fetchLog["a"]) = 2
  /\ Fetch1("a").result = 0
  /\ Fetch1("a").device
  /\ ~Fetch1("a").desc.fragmentStage
  /\ Fetch2("a").compiled
  /\ pipelines["a"] = Fetch2("a").result

\* C10: a draw made with a bundle or a render pass open, under a name that
\* is not cached and with a stage absent, raises no error and records no
\* draw command.
C10_NotReadyDrawSkipped ==
  (/\ lastCall.op \in DrawOps
   /\ (lastCall.pre.bundleEncoder # 0 \/ lastCall.pre.currentRenderPass # 0)
   /\ lastCall.fetch.result = 0
   /\ ~lastCall.fetch.threw)
  => /\ lastCall.err = "none"
     /\ \A i \in Recorded : lastCall.trace[i].ev \notin DrawCmds

\* The draw commands recorded on the render passes begun on stream e, as
\* pairs of a pass and a position in its commands.
DrawsOn(e) ==
  UNION { { <<p, i>> : i \in {j \in DOMAIN passes[p].cmds :
                                 passes[p].cmds[j][1] \in DrawCmds} }
          : p \in {q \in DOMAIN passes : passes[q].enc = e} }

\* The engine was constructed without antialiasing and without compute
\* support, and the calls made on it were init, beginFrame, `clears` calls
\* of clear, one draw of 3 vertices with both stages, endFrame, in this
\* order: endFrame is the last of 3 + clears calls, one beginFrame opened
\* the three streams, each clear began one render pass on the render
\* stream, and the one fetch was made after them.
C11_Sequence(clears) ==
  /\ ~options.antialiasing
  /\ ~options.supportCompute
  /\ calls = 3 + clears
  /\ lastCall.op = "endFrame"
  /\ Len(encoders) = 3
  /\ Len(passes) = clears
  /\ Len(fetchLog["a"]) = 1
  /\ Fetch1("a").desc.vertexStage /\ Fetch1("a").desc.fragmentStage
  /\ Fetch1("a").frame = renderEncoder
  /\ clears > 0 => Fetch1("a").pass = Len(passes)

\* What the sequence is to end with: endFrame raised no error, exactly one
\* render pipeline is cached, under the name drawn with, exactly one draw
\* command, of 3 vertices, is recorded into the render stream, and the
\* compute stream was finished, for the first time, with nothing on it.
C11_Outcome ==
  /\ lastCall.err = "none"
  /\ {n \in Names : pipelines[n] # 0} = {"a"}
  /\ Len(renderPipelineObjs) = 1
  /\ Cardinality(DrawsOn(renderEncoder)) = 1
  /\ \A d \in DrawsOn(renderEncoder) : passes[d[1]].cmds[d[2]] = <<"draw", 3>>
  /\ Len(queue) = 1
  /\ queue[1][2].encoder = renderEncoder
  /\ queue[1][3].encoder = computeEncoder
  /\ queue[1][3].valid
  /\ queue[1][3].cmds = <<>>
  /\ encoders[computeEncoder].finished

LiveTextures(kind) ==
  {x \in DOMAIN textures : textures[x].kind = kind /\ textures[x].destroys = 0}

\* The texture of the kind of x that was created last before x (0: none).
PreviousTexture(x) ==
  LET older == {y \in 1..(x - 1) : textures[y].kind = textures[x].kind}
  IN IF older = {} THEN 0 ELSE CHOOSE y \in older : \A z \in older : z <= y

\* C12: with antialiasing, a setSize made after init destroys the previous
\* offscreen color texture and the previous depth texture once each, each
\* before it creates the one replacement of its kind, and after any calls
\* of init and setSize exactly one color and one depth texture is live,
\* the ones the engine holds; a render pass is begun on the live offscreen
\* texture, never on a destroyed one.  Without antialiasing no color
\* texture is ever created, the pass is begun on the swap chain's image,
\* and the same holds of the depth texture alone.
C12_OneLiveAttachment ==
  /\ \A x \in DOMAIN textures : textures[x].destroys <= 1
  /\ LiveTextures("color") =
       IF device /\ options.antialiasing THEN {mainTexture} ELSE {}
  /\ LiveTextures("depth") = IF device THEN {depthTexture} ELSE {}
  /\ ~options.antialiasing
       => /\ \A x \in DOMAIN textures : textures[x].kind = "depth"
          /\ mainTexture = 0
  /\ (lastCall.op = "setSize" /\ device)
       => /\ lastCall.err = "none"
          /\ Cardinality(EventsOf("createTexture")) =
               IF options.antialiasing THEN 2 ELSE 1
          /\ Cardinality(EventsOf("destroy")) = Cardinality(EventsOf("createTexture"))
          /\ \A c \in EventsOf("createTexture") :
               /\ lastCall.trace[c].obj \in {mainTexture, depthTexture}
               /\ \E d \in EventsOf("destroy") :
                    /\ d < c
                    /\ lastCall.trace[d].obj = PreviousTexture(lastCall.trace[c].obj)
                    /\ \A e \in EventsOf("destroy") :
                         lastCall.trace[e].obj = lastCall.trace[d].obj => e = d
  /\ \A b \in EventsOf("beginRenderPass") :
       LET pass == passes[lastCall.trace[b].obj] IN
       /\ pass.depth.attachment = [kind |-> "texture", id |-> depthTexture]
       /\ IF options.antialiasing
          THEN /\ pass.color.attachment = [kind |-> "texture", id |-> mainTexture]
               /\ textures[mainTexture].destroys = 0
               /\ pass.color.resolveTarget.kind = "swap"
          ELSE pass.color.attachment.kind = "swap"

\* C12's case: with antialiasing, the attachments were replaced by a
\* setSize after init, and a render pass was then begun on the new
\* offscreen texture, the first one being destroyed.
C12_Witness ==
  /\ options.antialiasing
  /\ lastCall.op = "clear"
  /\ EventsOf("beginRenderPass") # {}
  /\ mainTexture > 1
  /\ passes[currentRenderPass].color.attachment.id = mainTexture
  /\ textures[1].kind = "color"
  /\ textures[1].destroys = 1

\* C13: after a setSize(width, height) that returns, the extent of the
\* attachment textures is width x height x 1 for the width and height
\* asked for, and the textures it created have that extent.
C13_ExtentAsRequested ==
  (lastCall.op = "setSize" /\ lastCall.err = "none")
    => /\ mainTextureExtends = <<lastCall.req[1], lastCall.req[2], 1>>
       /\ \A c \in EventsOf("createTexture") :
            lastCall.trace[c].list = <<lastCall.req[1], lastCall.req[2], 1>>

\* C14: stopRecordBundle called with no bundle open raises an
\* InvalidStateError, makes no device call and leaves the bundle, the
\* passes and the frame as they were; called with a bundle open it raises
\* nothing, finishes that bundle and leaves no bundle open.
C14_StopWithoutBundle ==
  lastCall.op = "stopRecordBundle"
    => IF lastCall.pre.bundleEncoder = 0
       THEN /\ lastCall.err = "InvalidStateError"
            /\ lastCall.trace = <<>>
            /\ bundleEncoder = 0
            /\ currentRenderPass = lastCall.pre.currentRenderPass
            /\ currentComputePass = lastCall.pre.currentComputePass
            /\ frameOpen = lastCall.pre.frameOpen
       ELSE /\ lastCall.err = "none"
            /\ lastCall.trace =
                 <<Event("finish", "bundle", lastCall.pre.bundleEncoder, 0, <<>>)>>
            /\ bundles[lastCall.pre.bundleEncoder].finished
            /\ bundleEncoder = 0

\* C15: a beginFrame called while a frame is open (after a beginFrame with
\* no endFrame since) opens no stream, so that the streams of the open
\* frame stay the engine's streams and no stream that was opened is left
\* behind unfinished.
C15_BeginFrameOnlyFromIdle ==
  /\ (lastCall.op = "beginFrame" /\ lastCall.pre.frameOpen)
       => EventsOf("createCommandEncoder") = {}
  /\ \A e \in DOMAIN encoders :
       ~encoders[e].finished => e \in {uploadEncoder, renderEncoder, computeEncoder}

\* C19: every bundle recording is opened with the swap chain format the
\* engine was configured with, which is the color format of every render
\* pipeline compiled with the default color state.
C19_BundleInSwapFormat ==
  /\ \A b \in DOMAIN bundles : bundles[b].colorFormat = options.swapChainFormat
  /\ \A p \in DOMAIN renderPipelineObjs :
       renderPipelineObjs[p].colorFormat = options.swapChainFormat
  /\ \A b \in DOMAIN bundles, p \in DOMAIN renderPipelineObjs :
       bundles[b].colorFormat = renderPipelineObjs[p].colorFormat

\* C20: the vertex or uniform buffer created for data of n bytes has n
\* rounded up to a multiple of 4 as its size: a multiple of 4, at least n
\* and less than n + 4.
C20_SizeRoundedUp ==
  lastCall.op \in {"createVertexBuffer", "createUniformBuffer"}
    => \A i \in EventsOf("createBuffer") :
         lastCall.trace[i].kind \in {"vertex", "uniform"}
           => /\ lastCall.trace[i].arg % 4 = 0
              /\ lastCall.trace[i].arg >= lastCall.req[1]
              /\ lastCall.trace[i].arg < lastCall.req[1] + 4

\* C16: on an engine constructed without compute support no compute pass
\* is ever begun or held open, dispatch and setComputeBindGroups raise
\* nothing and make no device call, setComputePipeline records nothing on
\* a pass, and every compute stream, open, finished or submitted, has
\* nothing on it.
C16_NoComputeWithoutSupport ==
  ~options.supportCompute
    => /\ currentComputePass = 0
       /\ \A p \in DOMAIN passes : passes[p].kind = "render"
       /\ \A e \in DOMAIN encoders :
            encoders[e].label = "compute" => encoders[e].cmds = <<>>
       /\ \A q \in DOMAIN queue :
            queue[q][3].label = "compute" /\ queue[q][3].cmds = <<>>
       /\ lastCall.op \in {"dispatch", "setComputeBindGroups"}
            => lastCall.err = "none" /\ lastCall.trace = <<>>
       /\ lastCall.op = "setComputePipeline"
            => \A i \in DOMAIN lastCall.trace : lastCall.trace[i].kind # "pass"

\* C16's case: without compute support, dispatch was called in an open
\* frame after a clear had begun the render pass.
C16_Witness ==
  /\ ~options.supportCompute
  /\ lastCall.op = "dispatch"
  /\ lastCall.pre.frameOpen
  /\ lastCall.pre.currentRenderPass # 0

\* The staging buffers that were registered: the ones a copy was recorded
\* from, which setSubData registers in its next statement.
Registered == {b \in DOMAIN buffers : buffers[b].copyEnc # 0}

\* C17: the registry holds, once each, the registered staging buffers that
\* are not destroyed; no buffer is destroyed twice; after every endFrame
\* the registry is empty and every staging buffer registered before it is
\* destroyed, by one destroy made after the submit of that endFrame or of
\* an earlier one.
C17_ReleaseOncePerFrame ==
  /\ \A b \in DOMAIN buffers : buffers[b].destroys <= 1
  /\ {tempBuffers[i] : i \in DOMAIN tempBuffers}
       = {b \in Registered : buffers[b].destroys = 0}
  /\ Len(tempBuffers) = Cardinality({tempBuffers[i] : i \in DOMAIN tempBuffers})
  /\ \A b \in DOMAIN buffers : buffers[b].destroys > 0 => b \in Registered
  /\ lastCall.op = "endFrame"
       => /\ tempBuffers = <<>>
          /\ \A b \in Registered : buffers[b].destroys = 1
          /\ \A i, j \in EventsOf("destroy") :
               lastCall.trace[i].obj = lastCall.trace[j].obj => i = j
          /\ \A i \in EventsOf("destroy") :
               /\ lastCall.trace[i].kind = "buffer"
               /\ buffers[lastCall.trace[i].obj].died = Len(queue)
               /\ \E k \in EventsOf("submit") : k < i

\* C17's case: two endFrames have each released a staging buffer
\* registered since the release before.
C17_Witness ==
  /\ lastCall.op = "endFrame"
  /\ Len(queue) = 2
  /\ EventsOf("destroy") # {}
  /\ \E b, c \in Registered : buffers[b].died = 1 /\ buffers[c].died = 2

\* C18: the sample count is the one the constructor set from the options
\* (1 without antialiasing, defaultSampleCount with it), and every render
\* pipeline compiled, every bundle recording opened and every attachment
\* texture created carries it.
C18_SampleCountFixed ==
  /\ mainPassSampleCount = IF options.antialiasing THEN defaultSampleCount ELSE 1
  /\ \A p \in DOMAIN renderPipelineObjs :
       renderPipelineObjs[p].sampleCount = mainPassSampleCount
  /\ \A b \in DOMAIN bundles : bundles[b].sampleCount = mainPassSampleCount
  /\ \A x \in DOMAIN textures : textures[x].sampleCount = mainPassSampleCount

\* C18's case: with antialiasing, attachment textures were created, a
\* bundle recording was opened and a pipeline was compiled and bound into
\* it.
C18_Witness ==
  /\ options.antialiasing
  /\ textures # <<>>
  /\ bundles # <<>>
  /\ renderPipelineObjs # <<>>
  /\ \E i \in Recorded : lastCall.trace[i].ev = "setPipeline"

\* The textures that were created, without the count of the destroy
\* calls made on them: a destroy of a destroyed texture changes nothing.
TexturesAs(tx) ==
  [x \in DOMAIN tx |-> [kind |-> tx[x].kind, size |-> tx[x].size,
                        sampleCount |-> tx[x].sampleCount,
                        destroyed |-> tx[x].destroys > 0]]

\* C21: dispose raises no error in any state and changes no field of the
\* engine and nothing of the device but the textures; called when no
\* attachment texture was created it makes no device call; after it every
\* attachment texture is destroyed; called right after a dispose it
\* leaves the textures as that dispose left them.
C21_DisposeIdempotent ==
  [][lastCall'.op = "dispose"
       => /\ lastCall'.err = "none"
          /\ UNCHANGED engineVars
          /\ UNCHANGED <<encoders, passes, bundles, buffers, queue, images,
                         renderPipelineObjs, computePipelineObjs>>
          /\ (mainTexture = 0 /\ depthTexture = 0)
               => lastCall'.trace = <<>> /\ UNCHANGED textures
          /\ \A x \in DOMAIN textures' : textures'[x].destroys > 0
          /\ lastCall.op = "dispose" => TexturesAs(textures') = TexturesAs(textures)]_vars

\* C21's case: with antialiasing, dispose was called twice on the
\* attachment textures that init created.
C21_Witness ==
  /\ lastCall.op = "dispose"
  /\ mainTexture # 0
  /\ textures[mainTexture].destroys = 2
  /\ textures[depthTexture].destroys = 2

\* C22: every render pass and every compute pass is begun on a stream
\* that a beginFrame opened and that was not finished when the pass was
\* begun, whatever call begins it.
C22_PassOnOpenStream ==
  \A p \in DOMAIN passes :
    /\ passes[p].enc \in DOMAIN encoders
    /\ passes[p].live

\* C23: in every step, a name present in the render mapping keeps its
\* pipeline and a name present in the compute mapping keeps its pipeline,
\* no pipeline that was compiled is changed, and a step that changes one
\* of the two mappings leaves the other as it was.
C23_CachedPipelinesStay ==
  [][/\ \A n \in Names :
          /\ pipelines[n] # 0 => pipelines'[n] = pipelines[n]
          /\ computePipelines[n] # 0 => computePipelines'[n] = computePipelines[n]
     /\ \A p \in DOMAIN renderPipelineObjs :
          p \in DOMAIN renderPipelineObjs' /\ renderPipelineObjs'[p] = renderPipelineObjs[p]
     /\ \A p \in DOMAIN computePipelineObjs :
          p \in DOMAIN computePipelineObjs' /\ computePipelineObjs'[p] = computePipelineObjs[p]
     /\ pipelines' # pipelines => computePipelines' = computePipelines
     /\ computePipelines' # computePipelines => pipelines' = pipelines]_vars

\* C23's case: the same name is in both mappings, and was then drawn with
\* under a description other than the one its render pipeline was
\* compiled from, or set as compute pipeline again.
C23_Witness ==
  /\ pipelines["a"] # 0
  /\ computePipelines["a"] # 0
  /\ lastCall.pre.pipelines["a"] # 0
  /\ \/ /\ lastCall.op \in DrawOps
        /\ lastCall.fetch.desc # renderPipelineObjs[pipelines["a"]].desc
        /\ lastCall.fetch.desc.vertexStage /\ lastCall.fetch.desc.fragmentStage
     \/ /\ lastCall.op = "setComputePipeline"
        /\ EventsOf("createComputePipeline") = {}

\* The batches submitted, as the set of the upload streams in them.
SubmittedUploads(upTo) == {queue[q][1].encoder : q \in 1..upTo}

\* C26: every copy that setSubData recorded was recorded on an upload
\* stream that was not finished, and a staging buffer that is destroyed
\* was destroyed after the stream holding its copy was submitted.
C26_CopySubmittedBeforeDestroy ==
  \A b \in Registered :
    /\ buffers[b].copyLive
    /\ buffers[b].destroys > 0
         => buffers[b].copyEnc \in SubmittedUploads(buffers[b].died)

\* The image of the swap chain that render pass p renders or resolves to.
ImageOf(p) ==
  IF options.antialiasing THEN passes[p].color.resolveTarget
  ELSE passes[p].color.attachment

RenderPasses == {p \in DOMAIN passes : passes[p].kind = "render"}

\* The color texture created last (0: none).
NewestColorTexture ==
  LET cs == {x \in DOMAIN textures : textures[x].kind = "color"}
  IN IF cs = {} THEN 0 ELSE CHOOSE x \in cs : \A y \in cs : y <= x

Loads(color, depth) ==
  <<color.loadValue, depth.depthLoadValue, depth.stencilLoadValue>>

\* The load values that initMainAttachments sets, and the ones that a
\* clear with arguments c asks for.
DefaultLoads ==
  <<ClearTo(<<0, 0, 0, 1>>), ClearTo(<<clearDepthValue>>), ClearTo(<<clearStencilValue>>)>>

ClearLoads(c) ==
  << IF c.backBuffer THEN ClearTo(c.color) ELSE LoadOp_Load,
     IF c.depth THEN ClearTo(<<clearDepthValue>>) ELSE LoadOp_Load,
     IF c.stencil THEN ClearTo(<<clearStencilValue>>) ELSE LoadOp_Load >>

\* C25: in every step, a pass that was begun keeps the attachments and
\* load values it was begun with; a render pass begun in the step has the
\* load values that are then in effect; on configured attachments a clear
\* puts the load values of its arguments in effect, ends the open render
\* pass and begins another, a setSize (like init) puts the defaults in
\* effect, and every other call leaves the load values in effect as they
\* were.
C25_LoadValuesFixedAtStart ==
  [][/\ \A p \in DOMAIN passes :
          /\ p \in DOMAIN passes'
          /\ passes'[p].color = passes[p].color
          /\ passes'[p].depth = passes[p].depth
     /\ \A p \in DOMAIN passes' \ DOMAIN passes :
          passes'[p].kind = "render"
            => Loads(passes'[p].color, passes'[p].depth)
                 = Loads(mainColorAttachments'[1], mainDepthAttachment'[1])
     /\ lastCall'.op = "init" =>
          Loads(mainColorAttachments'[1], mainDepthAttachment'[1]) = DefaultLoads
     /\ mainColorAttachments # <<>> =>
          /\ lastCall'.op = "clear" =>
               /\ Loads(mainColorAttachments'[1], mainDepthAttachment'[1])
                    = ClearLoads(lastCall'.req[1])
               /\ currentRenderPass # 0 =>
                    /\ passes'[currentRenderPass].ends = 1
                    /\ currentRenderPass' \in DOMAIN passes' \ DOMAIN passes
          /\ lastCall'.op = "setSize" =>
               Loads(mainColorAttachments'[1], mainDepthAttachment'[1]) = DefaultLoads
          /\ lastCall'.op \notin {"clear", "setSize", "init"} =>
               Loads(mainColorAttachments'[1], mainDepthAttachment'[1])
                 = Loads(mainColorAttachments[1], mainDepthAttachment[1])]_vars

\* C25's case: a call other than clear began a render pass, which loads
\* the color and the depth as the most recent clear asked.
C25_Witness ==
  /\ lastCall.op \in {"executeBundles", "enableScissor", "disableScissor"}
  /\ EventsOf("beginRenderPass") # {}
  /\ passes[currentRenderPass].color.loadValue = LoadOp_Load
  /\ passes[currentRenderPass].depth.depthLoadValue = LoadOp_Load

====
